---- MODULE Spec2Model ----
(***************************************************************************)
(* Model of the image-to-print converter: the App component's state and   *)
(* handlers (batch coordinator), the export service (processExports,      *)
(* generateZip) and the export transform.                                 *)
(*                                                                         *)
(* Conventions.  A string is a sequence of one-character strings; the     *)
(* fixed file-name suffixes are single tokens.  A real number is an exact *)
(* rational <<n, d>> with d > 0.  Lengths in cm are kept in tenths of a   *)
(* cm (mm), pixels-per-cm in ten-thousandths.  A nullable value is <<>> or   *)
(* <<v>>.                                                                  *)
(***************************************************************************)
EXTENDS Integers, Sequences, FiniteSets, TLC

\* ------------------------------------------------------------------ bounds

\* most images in one selection
MaxFiles == 2
\* most user operations (clicks, edits) in one behaviour
MaxOps == 3
\* largest target width and reference width tried by the transform check
MaxWidth == 4
\* most App operations in a behaviour that follows the crop editor
MaxSessionOps == 4
\* most crop editor operations (pointer events, buttons, redraws of a new size)
MaxEdits == 3

\* ------------------------------------------------------------ exact numbers

RNum(n) == <<n, 1>>

Abs(n) == IF n < 0 THEN 0 - n ELSE n

\* The operators below bind their operands (x \in {a}) before using them, so
\* that an operand given as an expression is evaluated once.
RECURSIVE Gcd(_, _)
Gcd(a, b) ==
    CHOOSE g \in {IF y = 0 THEN x ELSE Gcd(y, x % y) : x \in {a}, y \in {b}} : TRUE

\* the fraction n / d (d # 0) in lowest terms, the denominator positive
RNorm(n, d) ==
    CHOOSE q \in {LET g == Gcd(Abs(x), Abs(y))
                  IN  IF y > 0 THEN <<x \div g, y \div g>>
                               ELSE <<(0 - x) \div g, (0 - y) \div g>> :
                     x \in {n}, y \in {d}} : TRUE

\* sums over the least common denominator, products with the common factors
\* taken out first, so that the intermediate values stay small
RAdd(a, b) ==
    CHOOSE q \in {LET g == Gcd(x[2], y[2])
                  IN  RNorm(x[1] * (y[2] \div g) + y[1] * (x[2] \div g), (x[2] \div g) * y[2]) :
                     x \in {a}, y \in {b}} : TRUE
RMul(a, b) ==
    CHOOSE q \in {LET g == Gcd(Abs(x[1]), Abs(y[2]))
                      k == Gcd(Abs(y[1]), Abs(x[2]))
                  IN  RNorm((x[1] \div g) * (y[1] \div k), (x[2] \div k) * (y[2] \div g)) :
                     x \in {a}, y \in {b}} : TRUE
RSub(a, b) == RAdd(a, RMul(<<0 - 1, 1>>, b))
\* 1 / b and a / b for b # 0
RInv(b) == CHOOSE q \in {<<y[2], y[1]>> : y \in {b}} : TRUE
RDiv(a, b) == RMul(a, RInv(b))
REq(a, b) == a[1] * b[2] = b[1] * a[2]

\* a raster that undershoots the page: Math.floor in place of Math.ceil
FloorDiv(n, d) == n \div d

\* Math.ceil(n / d) for n >= 0, d > 0
CeilDiv(n, d) == IF n % d = 0 THEN n \div d ELSE (n \div d) + 1

\* ------------------------------------------------------------------ strings

Whitespace == {" "}

RECURSIVE TrimStart(_)
TrimStart(s) == IF s # <<>> /\ Head(s) \in Whitespace THEN TrimStart(Tail(s)) ELSE s

RECURSIVE TrimEnd(_)
TrimEnd(s) == IF s # <<>> /\ s[Len(s)] \in Whitespace
                 THEN TrimEnd(SubSeq(s, 1, Len(s) - 1)) ELSE s

\* String.prototype.trim
Trim(s) == TrimEnd(TrimStart(s))

\* String.prototype.lastIndexOf: 0-based index of the last ch, -1 when absent
LastIndexOf(s, ch) ==
    LET hits == {k \in 1..Len(s) : s[k] = ch}
    IN  IF hits = {} THEN 0 - 1
        ELSE (CHOOSE k \in hits : \A j \in hits : j <= k) - 1

\* String.prototype.substring(0, end): a negative end counts as 0
SubstringTo(s, end) == IF end <= 0 THEN <<>> ELSE SubSeq(s, 1, IF end > Len(s) THEN Len(s) ELSE end)

\* the name cut at its first '.', not its last
StripExtFirstDot(name) ==
    LET hits == {k \in 1..Len(name) : name[k] = "."}
        sub  == IF hits = {} THEN <<>>
                ELSE SubSeq(name, 1, (CHOOSE k \in hits : \A j \in hits : k <= j) - 1)
    IN  IF sub = <<>> THEN name ELSE sub

\* f.name.substring(0, f.name.lastIndexOf('.')) || f.name
StripExt(name) ==
    LET sub == SubstringTo(name, LastIndexOf(name, "."))
    IN  IF sub = <<>> THEN name ELSE sub

\* decimal digits of idx + 1 in a template string (idx + 1 <= 9 here)
Digit(n) == <<ToString(n)>>

\* ------------------------------------------------------- output spec registry

DPI_300_PPCM_E4 == 1181102

SPECS == [A1   |-> [widthMm |-> 594, heightMm |-> 841, bleedMm |-> 3],
          A2   |-> [widthMm |-> 420, heightMm |-> 594, bleedMm |-> 3],
          WebP |-> [widthPx |-> 912, heightPx |-> 1296]]

\* bleed added on one side only
TotalMmOneBleed(trimMm, bleedMm) == trimMm + bleedMm

\* trim + 2 x bleed, in mm (the code: widthCm + (bleedMm / 10) * 2)
TotalMm(trimMm, bleedMm) == trimMm + (bleedMm * 2)

\* Math.ceil(totalCm * DPI_300_PPCM)
PrintPx(totalMm) == CeilDiv(totalMm * DPI_300_PPCM_E4, 100000)

\* total page size (mm) and raster size (px) of a print target
PrintTarget(s) ==
    LET wMm == TotalMm(s.widthMm, s.bleedMm)
        hMm == TotalMm(s.heightMm, s.bleedMm)
    IN  [pageMm |-> <<wMm, hMm>>, px |-> <<PrintPx(wMm), PrintPx(hMm)>>]

\* ------------------------------------------------------------ transform engine

\* the crop offset taken in preview pixels, not scaled to the target
DrawRectUnscaledOffset(nat, crop, tw, th, refW) ==
    LET ratio   == RDiv(RNum(tw), RNum(refW))
        scaledW == RMul(RMul(RNum(refW), crop.scale), ratio)
        scaledH == RMul(RDiv(scaledW, RNum(nat[1])), RNum(nat[2]))
    IN  [x |-> RAdd(RSub(RDiv(RNum(tw), RNum(2)), RDiv(scaledW, RNum(2))), crop.x),
         y |-> RAdd(RSub(RDiv(RNum(th), RNum(2)), RDiv(scaledH, RNum(2))), crop.y),
         w |-> scaledW,
         h |-> scaledH]

\* The draw rectangle of generateHighResCanvas / generateWebPCanvas for an
\* image of natural size nat = <<Wn, Hn>>, a crop with rational fields, a
\* target of tw x th pixels and the reference width refW.
DrawRect(nat, crop, tw, th, refW) ==
    LET ratio   == RDiv(RNum(tw), RNum(refW))
        scaledW == RMul(RMul(RNum(refW), crop.scale), ratio)
        scaledH == RMul(RDiv(scaledW, RNum(nat[1])), RNum(nat[2]))
        centerX == RDiv(RNum(tw), RNum(2))
        centerY == RDiv(RNum(th), RNum(2))
        offsetX == RMul(crop.x, ratio)
        offsetY == RMul(crop.y, ratio)
    IN  [x |-> RAdd(RSub(centerX, RDiv(scaledW, RNum(2))), offsetX),
         y |-> RAdd(RSub(centerY, RDiv(scaledH, RNum(2))), offsetY),
         w |-> scaledW,
         h |-> scaledH]

\* Math.round(n / d) for d > 0: the nearest integer, a half rounded up
RoundDiv(n, d) == ((2 * n) + d) \div (2 * d)

\* -------------------------------------------------------------------- canvases

\* What is painted on a canvas, in order.  A new canvas is transparent.
FillRect(style, w, h) ==
    [op |-> "fillRect", style |-> style,
     rect |-> [x |-> RNum(0), y |-> RNum(0), w |-> RNum(w), h |-> RNum(h)]]
DrawImage(rect) == [op |-> "drawImage", style |-> "image", rect |-> rect]

\* generateHighResCanvas: white background, then the image
HighResCanvasPaint(nat, crop, targetWidthPx, targetHeightPx, referenceWidthPx) ==
    << FillRect("#ffffff", targetWidthPx, targetHeightPx),
       DrawImage(DrawRect(nat, crop, targetWidthPx, targetHeightPx, referenceWidthPx)) >>

\* ------------------------------------------------------------------- inputs

\* The images a user can pick: name, natural size, byte size.
FileSet == { [name |-> <<"a", ".", "j">>, nat |-> <<4, 2>>, size |-> 8],
             [name |-> <<"a", ".", "p">>, nat |-> <<3, 5>>, size |-> 0],
             [name |-> <<"b">>,           nat |-> <<1, 1>>, size |-> 2] }

\* What a user can type into a name field.
NameInputs == { <<>>, <<" ">>, <<" ", "c">> }

\* What a user can type into the batch-rename field.
BatchNameInputs == { <<" ">>, <<"c", " ">> }

\* Values of the resize slider (min 1, max 100).
ScaleInputs == {1, 100}

\* Crop states the editor can commit, fields as rationals.
CropInputs == { [x |-> <<1, 1>>, y |-> <<0 - 1, 1>>, scale |-> <<1, 2>>] }

\* Bleed-box widths the editor can report.
LayoutInputs == {2}

\* Byte sizes an encoder can return for a raster.
BlobSizes == {5, 9, 524288}

\* The byte size the encoders return in a batch run: below the size of one
\* image, above that of another (what the sizes do to the size display is
\* followed on processExports alone).
BatchBlobSizes == {5}

\* Every ordered selection of 1..MaxFiles distinct images.
Selections ==
    {s \in UNION {[1..n -> FileSet] : n \in 1..MaxFiles} :
        \A j, k \in 1..Len(s) : j # k => s[j] # s[k]}

\* A value that may be null is a sequence: <<>> for null, <<v>> for v.
null == <<>>
Some(v) == <<v>>
Get(o) == o[1]

\* -------------------------------------------------------------------- state

VARIABLES
    files,             \* File[]
    previewSrc,        \* null or Some(name of the image whose data URL is shown)
    thumbnails,        \* object URL per image (named by the image)
    currentFileIndex,  \* 0-based
    crops,             \* CropState[]
    editorLayoutWidth, \* number, 0 before the editor reported a width
    fileSettings,      \* ExportOptions[]
    fileNames,         \* string[]
    batchNameInput,    \* string
    isProcessing,      \* boolean
    results,           \* null or Some(BatchResult[])
    pendingLoads,      \* images whose FileReader load (loadMainPreview) is in flight
    runs,              \* the batch runs started by handleGenerate, oldest first
    zip,               \* null or Some(archive of the last downloadZip)
    lastAlert,         \* the last alert() shown, "none" before the first
    ops,               \* number of user operations the session still follows
    job,               \* a stand-alone processExports call (SpecExports)
    tf,                \* a stand-alone transform evaluation (SpecTransform)
    ed                 \* the CropEditor component: its mount and local state

appVars == <<files, previewSrc, thumbnails, currentFileIndex, crops, editorLayoutWidth,
             fileSettings, fileNames, batchNameInput, isProcessing, results,
             pendingLoads, runs, zip, lastAlert, ops>>

vars == <<files, previewSrc, thumbnails, currentFileIndex, crops, editorLayoutWidth,
          fileSettings, fileNames, batchNameInput, isProcessing, results,
          pendingLoads, runs, zip, lastAlert, ops, job, tf, ed>>

DefaultOptions == [includePdf |-> FALSE, includeWebpFixed |-> FALSE,
                   includeResize |-> TRUE, resizeScale |-> 50]

\* a crop created with no zoom at all
DefaultCropZeroScale == [x |-> <<0, 1>>, y |-> <<0, 1>>, scale |-> <<0, 1>>]

\* { x: 0, y: 0, scale: 1 }
DefaultCrop == [x |-> <<0, 1>>, y |-> <<0, 1>>, scale |-> <<1, 1>>]

\* the state of App after its first render
InitState ==
    /\ files = <<>>
    /\ previewSrc = null
    /\ thumbnails = <<>>
    /\ currentFileIndex = 0
    /\ crops = <<>>
    /\ editorLayoutWidth = 0
    /\ fileSettings = <<>>
    /\ fileNames = <<>>
    /\ batchNameInput = <<>>
    /\ isProcessing = FALSE
    /\ results = null
    /\ pendingLoads = {}
    /\ runs = <<>>
    /\ zip = null
    /\ lastAlert = "none"

InitApp == InitState /\ ops = MaxOps

\* ------------------------------------------------------------ derived values

HasOutput(s) == s.includePdf \/ s.includeWebpFixed \/ s.includeResize

\* fileSettings[currentFileIndex] || { defaults }
currentOptions ==
    IF currentFileIndex + 1 \in DOMAIN fileSettings
        THEN fileSettings[currentFileIndex + 1] ELSE DefaultOptions

onlyResize == /\ currentOptions.includeResize
              /\ ~currentOptions.includePdf
              /\ ~currentOptions.includeWebpFixed

isBatch == Len(files) > 1

\* which step of the page is rendered
UploadView  == previewSrc = null
EditView    == previewSrc # null /\ results = null
ResultsView == previewSrc # null /\ results # null
EditorShown == EditView /\ ~onlyResize

\* a user operation (a click, an edit) happens: it is counted
UserOp == /\ ops > 0
          /\ ops' = ops - 1

\* ------------------------------------------------- the CropEditor's mounting

\* The component as React keeps it.  on: whether its local state is followed
\* (where it is not, handleCropChange and onLayoutChange are called with what
\* an editor can commit); key, imageSrc: the props it was rendered with; image:
\* the decoded image; loading: the image loads in flight, each with the
\* initialCrop its effect closed over; canvas: the size of the canvas at the
\* last draw that moved the bleed box; last: the handler that ran last.
EditorOff ==
    [on |-> FALSE, mounted |-> FALSE, key |-> 0, imageSrc |-> null, image |-> null,
     loading |-> {}, dragStart |-> null, crop |-> DefaultCrop, viewLayout |-> null,
     canvas |-> null, last |-> "none", edits |-> 0]

Unmounted(edits) == [EditorOff EXCEPT !.on = TRUE, !.edits = edits]

\* first render of <CropEditor key imageSrc initialCrop>: useState(initialCrop)
\* and the image-load effect
Mount(key, imageSrc, initialCrop, edits) ==
    [on |-> TRUE, mounted |-> TRUE, key |-> key, imageSrc |-> imageSrc, image |-> null,
     loading |-> {[src |-> Get(imageSrc), initialCrop |-> initialCrop]},
     dragStart |-> null, crop |-> initialCrop, viewLayout |-> null,
     canvas |-> null, last |-> "mount", edits |-> edits]

\* React renders App after a state update: the editor is unmounted where the
\* edit step no longer shows it, mounted anew under a new key, and its
\* image-load effect runs again when imageSrc changed.
Render ==
    IF ~ed.on THEN UNCHANGED ed
    ELSE IF ~EditorShown' THEN ed' = Unmounted(ed.edits)
    ELSE IF ~ed.mounted \/ ed.key # currentFileIndex'
        THEN ed' = Mount(currentFileIndex', previewSrc', crops'[currentFileIndex' + 1],
                         ed.edits)
    ELSE IF ed.imageSrc # previewSrc'
        THEN ed' = [ed EXCEPT !.imageSrc = previewSrc',
                              !.loading = @ \cup {[src |-> Get(previewSrc'),
                                                   initialCrop |-> crops'[currentFileIndex' + 1]]}]
    ELSE UNCHANGED ed

\* arr[index] = value on a copy of a JS array (index 0-based, index <= length)
ArraySet(arr, index, value) ==
    IF index + 1 \in DOMAIN arr THEN [arr EXCEPT ![index + 1] = value]
                                ELSE Append(arr, value)

\* ------------------------------------------------------- selection and preview

\* loadMainPreview: starts a FileReader load; its onload is PreviewLoaded
LoadMainPreview(file) == pendingLoads' = pendingLoads \cup {file.name}

HandleImageSelect(selectedFiles) ==
    /\ UploadView
    /\ UserOp
    /\ files' = selectedFiles
    /\ fileNames' = [k \in 1..Len(selectedFiles) |-> StripExt(selectedFiles[k].name)]
    /\ crops' = [k \in 1..Len(selectedFiles) |-> DefaultCrop]
    /\ fileSettings' = [k \in 1..Len(selectedFiles) |-> DefaultOptions]
    /\ thumbnails' = [k \in 1..Len(selectedFiles) |-> selectedFiles[k].name]
    /\ currentFileIndex' = 0
    /\ LoadMainPreview(selectedFiles[1])
    /\ results' = null
    /\ UNCHANGED <<previewSrc, editorLayoutWidth, batchNameInput, isProcessing,
                   runs, zip, lastAlert, job, tf>>
    /\ Render

\* reader.onload of loadMainPreview
PreviewLoaded(src) ==
    /\ src \in pendingLoads
    /\ pendingLoads' = pendingLoads \ {src}
    /\ previewSrc' = Some(src)
    /\ UNCHANGED <<files, thumbnails, currentFileIndex, crops, editorLayoutWidth,
                   fileSettings, fileNames, batchNameInput, isProcessing, results,
                   runs, zip, lastAlert, ops, job, tf>>
    /\ Render

\* switchFile(index) from the gallery strip (handleNextImage / handlePrevImage
\* are not bound to any control)
SwitchFile(index) ==
    /\ EditView /\ isBatch
    /\ index + 1 \in DOMAIN thumbnails
    /\ UserOp
    /\ IF index >= 0 /\ index < Len(files)
          THEN /\ currentFileIndex' = index
               /\ LoadMainPreview(files[index + 1])
          ELSE UNCHANGED <<currentFileIndex, pendingLoads>>
    /\ UNCHANGED <<files, previewSrc, thumbnails, crops, editorLayoutWidth,
                   fileSettings, fileNames, batchNameInput, isProcessing, results,
                   runs, zip, lastAlert, job, tf>>
    /\ Render

\* ------------------------------------------------------------- edit handlers

\* handleCropChange, called by the crop editor with the crop it commits
HandleCropChange(newCrop) ==
    /\ EditorShown
    /\ UserOp
    /\ crops' = ArraySet(crops, currentFileIndex, newCrop)
    /\ UNCHANGED <<files, previewSrc, thumbnails, currentFileIndex, editorLayoutWidth,
                   fileSettings, fileNames, batchNameInput, isProcessing, results,
                   pendingLoads, runs, zip, lastAlert, job, tf>>
    /\ Render

\* onLayoutChange = setEditorLayoutWidth, called by the crop editor
OnLayoutChange(width) ==
    /\ EditorShown
    /\ editorLayoutWidth # width
    /\ UserOp
    /\ editorLayoutWidth' = width
    /\ UNCHANGED <<files, previewSrc, thumbnails, currentFileIndex, crops,
                   fileSettings, fileNames, batchNameInput, isProcessing, results,
                   pendingLoads, runs, zip, lastAlert, job, tf>>
    /\ Render

HandleNameChange(index, newName) ==
    /\ EditView
    /\ UserOp
    /\ fileNames' = ArraySet(fileNames, index, newName)
    /\ UNCHANGED <<files, previewSrc, thumbnails, currentFileIndex, crops,
                   editorLayoutWidth, fileSettings, batchNameInput, isProcessing,
                   results, pendingLoads, runs, zip, lastAlert, job, tf>>
    /\ Render

SetBatchNameInput(value) ==
    /\ EditView /\ isBatch
    /\ batchNameInput # value
    /\ UserOp
    /\ batchNameInput' = value
    /\ UNCHANGED <<files, previewSrc, thumbnails, currentFileIndex, crops,
                   editorLayoutWidth, fileSettings, fileNames, isProcessing,
                   results, pendingLoads, runs, zip, lastAlert, job, tf>>
    /\ Render

\* applyBatchRename; its button is disabled while batchNameInput is empty
ApplyBatchRename ==
    /\ EditView /\ isBatch
    /\ batchNameInput # <<>>
    /\ UserOp
    /\ IF Trim(batchNameInput) = <<>>
          THEN UNCHANGED fileNames
          ELSE fileNames' = [k \in 1..Len(files) |->
                                Trim(batchNameInput) \o <<"_">> \o Digit(k)]
    /\ UNCHANGED <<files, previewSrc, thumbnails, currentFileIndex, crops,
                   editorLayoutWidth, fileSettings, batchNameInput, isProcessing,
                   results, pendingLoads, runs, zip, lastAlert, job, tf>>
    /\ Render

ApplyCropToAll ==
    /\ EditorShown /\ isBatch
    /\ UserOp
    /\ crops' = [k \in 1..Len(files) |-> crops[currentFileIndex + 1]]
    /\ lastAlert' = "crop applied"
    /\ UNCHANGED <<files, previewSrc, thumbnails, currentFileIndex, editorLayoutWidth,
                   fileSettings, fileNames, batchNameInput, isProcessing, results,
                   pendingLoads, runs, zip, job, tf>>
    /\ Render

ApplySettingsToAll ==
    /\ EditView /\ isBatch
    /\ UserOp
    /\ fileSettings' = [k \in 1..Len(files) |-> fileSettings[currentFileIndex + 1]]
    /\ lastAlert' = "settings applied"
    /\ UNCHANGED <<files, previewSrc, thumbnails, currentFileIndex, crops,
                   editorLayoutWidth, fileNames, batchNameInput, isProcessing, results,
                   pendingLoads, runs, zip, job, tf>>
    /\ Render

\* the "Apply {n}% scale to all" button of the resize panel
ApplyScaleToAll ==
    /\ EditView /\ isBatch
    /\ currentOptions.includeResize
    /\ UserOp
    /\ fileSettings' = [k \in 1..Len(fileSettings) |->
                           [fileSettings[k] EXCEPT !.resizeScale = currentOptions.resizeScale]]
    /\ lastAlert' = "scale applied"
    /\ UNCHANGED <<files, previewSrc, thumbnails, currentFileIndex, crops,
                   editorLayoutWidth, fileNames, batchNameInput, isProcessing, results,
                   pendingLoads, runs, zip, job, tf>>
    /\ Render

\* toggleOption(key); with no settings entry at the index the updater throws
ToggleOption(key) ==
    /\ EditView
    /\ currentFileIndex + 1 \in DOMAIN fileSettings
    /\ UserOp
    /\ fileSettings' = [fileSettings EXCEPT ![currentFileIndex + 1][key] = ~@]
    /\ UNCHANGED <<files, previewSrc, thumbnails, currentFileIndex, crops,
                   editorLayoutWidth, fileNames, batchNameInput, isProcessing, results,
                   pendingLoads, runs, zip, lastAlert, job, tf>>
    /\ Render

\* updateResizeScale(val) from the slider, shown while includeResize is on
UpdateResizeScale(val) ==
    /\ EditView
    /\ currentOptions.includeResize
    /\ currentFileIndex + 1 \in DOMAIN fileSettings
    /\ fileSettings[currentFileIndex + 1].resizeScale # val
    /\ UserOp
    /\ fileSettings' = [fileSettings EXCEPT ![currentFileIndex + 1].resizeScale = val]
    /\ UNCHANGED <<files, previewSrc, thumbnails, currentFileIndex, crops,
                   editorLayoutWidth, fileNames, batchNameInput, isProcessing, results,
                   pendingLoads, runs, zip, lastAlert, job, tf>>
    /\ Render

HandleReset ==
    /\ previewSrc # null
    /\ UserOp
    /\ thumbnails' = <<>>
    /\ files' = <<>>
    /\ previewSrc' = null
    /\ results' = null
    /\ crops' = <<>>
    /\ fileSettings' = <<>>
    /\ currentFileIndex' = 0
    /\ editorLayoutWidth' = 0
    /\ fileNames' = <<>>
    /\ batchNameInput' = <<>>
    /\ UNCHANGED <<isProcessing, pendingLoads, runs, zip, lastAlert, job, tf>>
    /\ Render

\* ------------------------------------------------------------ the CropEditor

\* Pointer positions (clientX, clientY), zoom slider values (min 0.1, max 3.0)
\* and canvas sizes (the container's clientWidth x clientHeight) tried.
PointerArgs == {<<0, 0>>, <<3, 1>>}
ZoomArgs == {<<1, 10>>, <<3, 1>>}
CanvasArgs == {<<82, 400>>, <<83, 400>>}

\* an image far taller than the frame
TallImage == [name |-> <<"t">>, nat |-> <<1, 30>>, size |-> 4]

\* natural size of the image a data URL decodes to
NatOf(src) == (CHOOSE f \in FileSet \cup {TallImage} : f.name = src).nat

\* the frame ratio taken from the trim size, the bleed left out
targetAspectTrim == RDiv(RNum(SPECS.A1.widthMm), RNum(SPECS.A1.heightMm))

\* draw: fullBleedWidth / fullBleedHeight of the A1 page, bleed on both sides
targetAspect ==
    RDiv(RNum(SPECS.A1.widthMm + (SPECS.A1.bleedMm * 2)),
         RNum(SPECS.A1.heightMm + (SPECS.A1.bleedMm * 2)))

RLess(a, b) == a[1] * b[2] < b[1] * a[2]

\* draw: the bleed box that fits a canvas of w x h with a margin of 40
ViewBox(w, h) ==
    LET margin == 40
        viewH  == RNum(h - (margin * 2))
        viewW  == RMul(viewH, targetAspect)
    IN  IF RLess(RNum(w - (margin * 2)), viewW)
           THEN [width |-> RNum(w - (margin * 2)),
                 height |-> RDiv(RNum(w - (margin * 2)), targetAspect)]
           ELSE [width |-> viewW, height |-> viewH]

\* Math.max(a, b)
RMax(a, b) == IF RLess(a, b) THEN b ELSE a

\* draw: where the image is drawn on a canvas of w x h (the ghost image and the
\* image clipped to the bleed box take the same rectangle)
PreviewRect(nat, crop, w, h) ==
    LET viewW        == ViewBox(w, h).width
        cx           == RDiv(RNum(w), RNum(2))
        cy           == RDiv(RNum(h), RNum(2))
        baseScale    == RDiv(viewW, RNum(nat[1]))
        currentScale == RMul(baseScale, RMax(<<1, 20>>, crop.scale))
        drawW        == RMul(RNum(nat[1]), currentScale)
        drawH        == RMul(RNum(nat[2]), currentScale)
    IN  [x |-> RAdd(RSub(cx, RDiv(drawW, RNum(2))), crop.x),
         y |-> RAdd(RSub(cy, RDiv(drawH, RNum(2))), crop.y),
         w |-> drawW,
         h |-> drawH]

\* Math.abs(a - b) > 0.5
FartherThanHalf(a, b) ==
    LET d == RSub(a, b)
    IN  2 * Abs(d[1]) > d[2]

EdOp(name) ==
    /\ ed.on /\ ed.mounted
    /\ ed.edits < MaxEdits

\* what an editor handler leaves alone in App
EdFrame == UNCHANGED <<files, previewSrc, thumbnails, currentFileIndex, fileSettings,
                       fileNames, batchNameInput, isProcessing, results, pendingLoads,
                       runs, zip, lastAlert, ops, job, tf>>

\* onCropChange(crop) = App.handleCropChange
CommitCrop(crop) == crops' = ArraySet(crops, currentFileIndex, crop)

\* img.onload of the image-load effect: setImage(img); setCrop(initialCrop)
EdImageLoaded(load) ==
    /\ ed.on /\ ed.mounted
    /\ load \in ed.loading
    /\ ed' = [ed EXCEPT !.loading = @ \ {load}, !.image = Some(load.src),
                        !.crop = load.initialCrop, !.last = "onload"]
    /\ UNCHANGED <<crops, editorLayoutWidth>>
    /\ EdFrame

\* draw on a canvas of w x h that moves the bleed box: setViewLayout, and the
\* effect calls onLayoutChange(viewLayout.width) = setEditorLayoutWidth (the
\* canvases tried give a whole width)
EdDraw(w, h) ==
    /\ EdOp("draw")
    /\ ed.image # null
    /\ IF ed.viewLayout = null THEN TRUE
       ELSE FartherThanHalf(Get(ed.viewLayout).width, ViewBox(w, h).width)
    /\ ed' = [ed EXCEPT !.viewLayout = Some(ViewBox(w, h)), !.canvas = Some(<<w, h>>),
                        !.last = "draw", !.edits = @ + 1]
    /\ editorLayoutWidth' = ViewBox(w, h).width[1] \div ViewBox(w, h).width[2]
    /\ UNCHANGED crops
    /\ EdFrame

\* handleMouseDown / handleTouchStart
EdMouseDown(pt) ==
    /\ EdOp("mousedown")
    /\ ed' = [ed EXCEPT !.dragStart = Some([x |-> RSub(RNum(pt[1]), ed.crop.x),
                                            y |-> RSub(RNum(pt[2]), ed.crop.y)]),
                        !.last = "mousedown", !.edits = @ + 1]
    /\ UNCHANGED <<crops, editorLayoutWidth>>
    /\ EdFrame

\* a pointer move that writes the committed crop as well
EdMouseMoveLive(pt) ==
    /\ EdOp("mousemove")
    /\ ed.dragStart # null
    /\ ed' = [ed EXCEPT !.crop.x = RSub(RNum(pt[1]), Get(ed.dragStart).x),
                        !.crop.y = RSub(RNum(pt[2]), Get(ed.dragStart).y),
                        !.last = "mousemove", !.edits = @ + 1]
    /\ CommitCrop(ed'.crop)
    /\ UNCHANGED editorLayoutWidth
    /\ EdFrame

\* handleMouseMove / handleTouchMove while a drag is on
EdMouseMove(pt) ==
    /\ EdOp("mousemove")
    /\ ed.dragStart # null
    /\ ed' = [ed EXCEPT !.crop.x = RSub(RNum(pt[1]), Get(ed.dragStart).x),
                        !.crop.y = RSub(RNum(pt[2]), Get(ed.dragStart).y),
                        !.last = "mousemove", !.edits = @ + 1]
    /\ UNCHANGED <<crops, editorLayoutWidth>>
    /\ EdFrame

\* handleMouseUp, bound to mouse up, mouse leave and touch end
EdMouseUp ==
    /\ EdOp("mouseup")
    /\ ed' = [ed EXCEPT !.dragStart = null, !.last = "mouseup", !.edits = @ + 1]
    /\ CommitCrop(ed.crop)
    /\ UNCHANGED editorLayoutWidth
    /\ EdFrame

\* a handler that sets the local crop and commits it
EdSetAndCommit(name, newCrop) ==
    /\ EdOp(name)
    /\ ed' = [ed EXCEPT !.crop = newCrop, !.last = name, !.edits = @ + 1]
    /\ CommitCrop(newCrop)
    /\ UNCHANGED editorLayoutWidth
    /\ EdFrame

\* handleZoom: the slider's value changed
EdZoom(newScale) ==
    /\ ed.on /\ newScale # ed.crop.scale
    /\ EdSetAndCommit("zoom", [ed.crop EXCEPT !.scale = newScale])

\* handleCenter
EdCenter == EdSetAndCommit("center", [ed.crop EXCEPT !.x = RNum(0), !.y = RNum(0)])

\* imageAspect > viewAspect
ImageWider(nat, layout) == RLess(RDiv(layout.width, layout.height),
                                 RDiv(RNum(nat[1]), RNum(nat[2])))

\* (viewLayout.height * image.naturalWidth) / (viewLayout.width * image.naturalHeight)
CoverScale(nat, layout) ==
    RDiv(RMul(layout.height, RNum(nat[1])), RMul(layout.width, RNum(nat[2])))

\* handleFit; returns early without an image or a layout
EdFit ==
    /\ ed.on /\ ed.image # null /\ ed.viewLayout # null
    /\ LET nat    == NatOf(Get(ed.image))
           layout == Get(ed.viewLayout)
           scale  == IF ImageWider(nat, layout) THEN RNum(1) ELSE CoverScale(nat, layout)
       IN  EdSetAndCommit("fit", [x |-> RNum(0), y |-> RNum(0), scale |-> scale])

\* handleFill; returns early without an image or a layout
EdFill ==
    /\ ed.on /\ ed.image # null /\ ed.viewLayout # null
    /\ LET nat    == NatOf(Get(ed.image))
           layout == Get(ed.viewLayout)
           scale  == IF ImageWider(nat, layout) THEN CoverScale(nat, layout) ELSE RNum(1)
       IN  EdSetAndCommit("fill", [x |-> RNum(0), y |-> RNum(0), scale |-> scale])

\* ------------------------------------------------------------- export service

Stages == {"a1", "a2", "webp", "resize"}

\* processExports control flow: the stage awaited next, "return" at the end
AfterWebp(options) == IF options.includeResize THEN "resize" ELSE "return"
AfterPdf(options) == IF options.includeWebpFixed THEN "webp" ELSE AfterWebp(options)
ExportEntry(options) == IF options.includePdf THEN "a1" ELSE AfterPdf(options)
\* the A2 page left out of the PDF set
ExportNextSkipA2(stage, options) ==
    CASE stage = "a1"     -> AfterPdf(options)
      [] stage = "a2"     -> AfterPdf(options)
      [] stage = "webp"   -> AfterWebp(options)
      [] stage = "resize" -> "return"

ExportNext(stage, options) ==
    CASE stage = "a1"     -> "a2"
      [] stage = "a2"     -> AfterPdf(options)
      [] stage = "webp"   -> AfterWebp(options)
      [] stage = "resize" -> "return"

\* the percentage taken as it comes
ClampScaleNone(p) == p

\* Math.max(1, Math.min(100, scalePercentage))
ClampScale(p) == IF p > 100 THEN 100 ELSE IF p < 1 THEN 1 ELSE p

\* canvas size of generateResizedWebP
ResizedCanvas(nat, scalePercentage) ==
    <<RoundDiv(nat[1] * ClampScale(scalePercentage), 100),
      RoundDiv(nat[2] * ClampScale(scalePercentage), 100)>>

\* canvas.toBlob(callback): the callback gets a blob only for a canvas that has
\* pixels, and null for one whose width or height is 0 (then generateResizedWebP
\* rejects with 'Blob creation failed')
HasPixels(size) == size[1] >= 1 /\ size[2] >= 1

\* can the raster of the stage be encoded: the print and thumbnail rasters have
\* fixed sizes, the resize raster the size computed from the image
Encodable(stage, image, options) ==
    stage = "resize" => HasPixels(ResizedCanvas(image.nat, options.resizeScale))

\* generateWebPCanvas: white background, then the image
WebPCanvasPaint(nat, crop, referenceWidthPx) ==
    << FillRect("#ffffff", SPECS.WebP.widthPx, SPECS.WebP.heightPx),
       DrawImage(DrawRect(nat, crop, SPECS.WebP.widthPx, SPECS.WebP.heightPx,
                          referenceWidthPx)) >>

\* generateResizedWebP: the whole image, scaled, on the new canvas
ResizedCanvasPaint(nat, scalePercentage) ==
    << DrawImage([x |-> RNum(0), y |-> RNum(0),
                  w |-> RNum(ResizedCanvas(nat, scalePercentage)[1]),
                  h |-> RNum(ResizedCanvas(nat, scalePercentage)[2])]) >>

\* the characters U+2192, U+2193 and U+2191 of the size comparison
RightArrow == "RIGHTWARDS ARROW"
DownArrow == "DOWNWARDS ARROW"
UpArrow == "UPWARDS ARROW"

\* Math.floor(Math.log(bytes) / Math.log(1024)) for bytes >= 1
UnitIndex(bytes) == IF bytes < 1024 THEN 0 ELSE IF bytes < 1024 * 1024 THEN 1 ELSE 2

\* formatBytes(bytes): the value in its unit with at most one decimal
formatBytes(bytes) ==
    IF bytes = 0 THEN <<"0", " ", "B">>
    ELSE LET i      == UnitIndex(bytes)
             k      == IF i = 0 THEN 1 ELSE IF i = 1 THEN 1024 ELSE 1024 * 1024
             tenths == RoundDiv(bytes * 10, k)
         IN  <<ToString(tenths \div 10)>>
                \o (IF tenths % 10 = 0 THEN <<>> ELSE <<".", ToString(tenths % 10)>>)
                \o <<" ", <<"B", "KB", "MB">>[i + 1]>>

\* a size increase hidden: the percentage clamped at 0 under the down arrow
ResizeSizeTextClamped(originalFileSize, blobSize) ==
    IF originalFileSize > 0
       THEN LET savings      == originalFileSize - blobSize
                percentSaved == IF savings > 0 THEN RoundDiv(savings * 100, originalFileSize)
                                               ELSE 0
            IN  formatBytes(originalFileSize) \o <<" ", RightArrow, " ">>
                   \o formatBytes(blobSize)
                   \o <<" (", DownArrow, ToString(percentSaved), "%)">>
       ELSE formatBytes(blobSize)

\* sizeText of the resize file
ResizeSizeText(originalFileSize, blobSize) ==
    IF originalFileSize > 0
       THEN LET savings      == originalFileSize - blobSize
                percentSaved == RoundDiv(savings * 100, originalFileSize)
                arrow        == IF savings > 0 THEN DownArrow ELSE UpArrow
            IN  formatBytes(originalFileSize) \o <<" ", RightArrow, " ">>
                   \o formatBytes(blobSize)
                   \o <<" (", arrow, ToString(percentSaved), "%)">>
       ELSE formatBytes(blobSize)

\* the resize raster cropped like the thumbnail
ResizeStageCropped(image, crop, referenceWidthPx, options) ==
    [canvas  |-> ResizedCanvas(image.nat, options.resizeScale),
     painted |-> << DrawImage(DrawRect(image.nat, crop,
                                       ResizedCanvas(image.nat, options.resizeScale)[1],
                                       ResizedCanvas(image.nat, options.resizeScale)[2],
                                       referenceWidthPx)) >>]

\* generateResizedWebP(image, options.resizeScale) as processExports calls it
ResizeStage(image, crop, referenceWidthPx, options) ==
    [canvas  |-> ResizedCanvas(image.nat, options.resizeScale),
     painted |-> ResizedCanvasPaint(image.nat, options.resizeScale)]

\* The GeneratedFile pushed when the stage's raster has been encoded into
\* blobSize bytes.  blob identifies the bytes (image index, stage), size is
\* blob.size; canvas is the pixel size of the raster, painted what was painted
\* on it and pageMm the PDF page format (<<>> for no page).
ExportFile(stage, image, crop, referenceWidthPx, baseName, options, originalFileSize, blobSize, i) ==
    CASE stage = "a1" ->
           [name |-> baseName \o <<"_A1.pdf">>, blob |-> <<i, stage>>, size |-> blobSize,
            type |-> "pdf",
            dimensions |-> <<"60 x 84.7 cm (incl. 3mm bleed)">>,
            sizeDisplay |-> formatBytes(blobSize),
            canvas |-> PrintTarget(SPECS.A1).px, pageMm |-> PrintTarget(SPECS.A1).pageMm,
            painted |-> HighResCanvasPaint(image.nat, crop, PrintTarget(SPECS.A1).px[1],
                                           PrintTarget(SPECS.A1).px[2], referenceWidthPx)]
      [] stage = "a2" ->
           [name |-> baseName \o <<"_A2.pdf">>, blob |-> <<i, stage>>, size |-> blobSize,
            type |-> "pdf",
            dimensions |-> <<"42.6 x 60 cm (incl. 3mm bleed)">>,
            sizeDisplay |-> formatBytes(blobSize),
            canvas |-> PrintTarget(SPECS.A2).px, pageMm |-> PrintTarget(SPECS.A2).pageMm,
            painted |-> HighResCanvasPaint(image.nat, crop, PrintTarget(SPECS.A2).px[1],
                                           PrintTarget(SPECS.A2).px[2], referenceWidthPx)]
      [] stage = "webp" ->
           [name |-> baseName \o <<"_web.webp">>, blob |-> <<i, stage>>, size |-> blobSize,
            type |-> "webp",
            dimensions |-> <<"912 x 1296 px">>,
            sizeDisplay |-> formatBytes(blobSize),
            canvas |-> <<SPECS.WebP.widthPx, SPECS.WebP.heightPx>>, pageMm |-> <<>>,
            painted |-> WebPCanvasPaint(image.nat, crop, referenceWidthPx)]
      [] stage = "resize" ->
           [name |-> baseName \o <<"_small.webp">>, blob |-> <<i, stage>>, size |-> blobSize,
            type |-> "webp",
            dimensions |-> <<ToString(RoundDiv(image.nat[1] * options.resizeScale, 100)),
                             " x ",
                             ToString(RoundDiv(image.nat[2] * options.resizeScale, 100)),
                             " px">>,
            sizeDisplay |-> ResizeSizeText(originalFileSize, blobSize),
            canvas |-> ResizeStage(image, crop, referenceWidthPx, options).canvas,
            pageMm |-> <<>>,
            painted |-> ResizeStage(image, crop, referenceWidthPx, options).painted]

\* ---------------------------------------------------------------- generateZip

\* folder.file(name, blob): an entry under the folder's path prefix; a second
\* entry with the same path replaces the first
ZipFile(archive, prefix, file) ==
    [archive EXCEPT !.files =
        {e \in @ : e.path # prefix \o file.name}
            \cup {[path |-> prefix \o file.name, blob |-> file.blob]}]

\* zip.folder(name): the folder entry and the prefix of what is put in it
ZipFolder(archive, name) == [archive EXCEPT !.folders = @ \cup {name}]
FolderPrefix(name) == name \o <<"/">>

RECURSIVE ZipFiles(_, _, _)
ZipFiles(archive, prefix, fileList) ==
    IF fileList = <<>> THEN archive
    ELSE ZipFiles(ZipFile(archive, prefix, Head(fileList)), prefix, Tail(fileList))

\* a folder even for a single result
UsesFoldersAlways(batchResults) == Len(batchResults) >= 1

\* batchResults.length > 1 ? zip.folder(batch.originalName) : zip
UsesFolders(batchResults) == Len(batchResults) > 1

RECURSIVE ZipBatches(_, _, _)
ZipBatches(archive, rest, batchResults) ==
    IF rest = <<>> THEN archive
    ELSE LET batch == Head(rest)
         IN  IF UsesFolders(batchResults)
               THEN ZipBatches(ZipFiles(ZipFolder(archive, batch.originalName),
                                        FolderPrefix(batch.originalName), batch.files),
                               Tail(rest), batchResults)
               ELSE ZipBatches(ZipFiles(archive, <<>>, batch.files),
                               Tail(rest), batchResults)

\* The archive: its folder entries, its file entries (path, blob), and the
\* list it was called with.
GenerateZip(batchResults) ==
    ZipBatches([batchResults |-> batchResults, folders |-> {}, files |-> {}],
               batchResults, batchResults)

\* downloadZip, the primary button of the results step
DownloadZip ==
    /\ ResultsView
    /\ UserOp
    /\ zip' = Some(GenerateZip(Get(results)))
    /\ UNCHANGED <<files, previewSrc, thumbnails, currentFileIndex, crops,
                   editorLayoutWidth, fileSettings, fileNames, batchNameInput,
                   isProcessing, results, pendingLoads, runs, lastAlert, job, tf>>
    /\ Render

\* ------------------------------------------------------------ handleGenerate

\* the output check left out
hasAnyOutputUnchecked == TRUE

hasAnyOutput == \E k \in DOMAIN fileSettings : HasOutput(fileSettings[k])

\* What the setTimeout callback closes over, and its locals.  i is the loop
\* index (0-based), pc the await the callback is suspended at, results the
\* local list of processExports, urls the images whose object URL is not
\* revoked, inflight the images whose decode or export is in progress,
\* errors the number of error alerts the run has raised.
NewRun == [files |-> files, fileSettings |-> fileSettings, fileNames |-> fileNames,
           crops |-> crops, editorLayoutWidth |-> editorLayoutWidth,
           pc |-> "timer", i |-> 0, baseName |-> <<>>, results |-> <<>>,
           batchResults |-> <<>>, urls |-> {}, inflight |-> {}, errors |-> 0]

\* handleGenerate itself does not look at isProcessing; the button that calls
\* it only hands the flag to its Button component as isLoading
HandleGenerate ==
    /\ EditView
    /\ UserOp
    /\ IF Len(files) = 0
          THEN UNCHANGED <<isProcessing, runs, lastAlert>>
          ELSE IF ~hasAnyOutput
                  THEN /\ lastAlert' = "select output"
                       /\ UNCHANGED <<isProcessing, runs>>
                  ELSE /\ isProcessing' = TRUE
                       /\ runs' = Append(runs, NewRun)
                       /\ UNCHANGED lastAlert
    /\ UNCHANGED <<files, previewSrc, thumbnails, currentFileIndex, crops,
                   editorLayoutWidth, fileSettings, fileNames, batchNameInput,
                   results, pendingLoads, zip, job, tf>>
    /\ Render

\* let baseName = fileNames[i]?.trim(); if (!baseName) baseName = stripped file name
ResolveBaseName(names, fileList, i) ==
    LET custom == IF i + 1 \in DOMAIN names THEN Trim(names[i + 1]) ELSE <<>>
    IN  IF custom = <<>> THEN StripExt(fileList[i + 1].name) ELSE custom

Awaiting == {"decode"} \cup Stages

\* The for loop from its head at index i up to the next await: images with no
\* output are skipped, the next one gets its object URL and its decode starts;
\* past the last image the loop ends.
RECURSIVE LoopFrom(_, _)
LoopFrom(run, i) ==
    IF i >= Len(run.files)
        THEN [run EXCEPT !.i = i, !.pc = "done"]
    ELSE IF ~HasOutput(run.fileSettings[i + 1])
        THEN LoopFrom(run, i + 1)
    ELSE [run EXCEPT !.i = i, !.pc = "decode",
                     !.baseName = ResolveBaseName(run.fileNames, run.files, i),
                     !.results = <<>>,
                     !.urls = @ \cup {i},
                     !.inflight = @ \cup {i}]

\* processExports not awaited: the loop goes on while the export is in flight
AfterDecodeNoAwait(run) == LoopFrom(run, run.i + 1)

\* the decode promise resolved: processExports runs up to its first await
AfterDecode(run) ==
    [run EXCEPT !.pc = ExportEntry(run.fileSettings[run.i + 1]), !.results = <<>>]

\* the BatchResult keyed by the name field as typed, not the resolved name
AfterExportsRawName(run) ==
    LoopFrom([run EXCEPT !.batchResults =
                            Append(@, [originalName |-> run.fileNames[run.i + 1],
                                       files |-> run.results]),
                         !.urls = @ \ {run.i},
                         !.inflight = @ \ {run.i}],
             run.i + 1)

\* processExports returned: the BatchResult is pushed, the object URL revoked
\* (finally), and the loop goes on with the next image
AfterExports(run) ==
    LoopFrom([run EXCEPT !.batchResults =
                            Append(@, [originalName |-> run.baseName, files |-> run.results]),
                         !.urls = @ \ {run.i},
                         !.inflight = @ \ {run.i}],
             run.i + 1)

\* const layoutW = editorLayoutWidth || 500
LayoutW(run) == IF run.editorLayoutWidth = 0 THEN 500 ELSE run.editorLayoutWidth

\* the crop, options and name read from the state of App at the time of the
\* encode, not from what the callback closed over
AfterEncodeLive(run, blobSize) ==
    LET k       == run.i + 1
        options == IF k \in DOMAIN fileSettings THEN fileSettings[k] ELSE run.fileSettings[k]
        crop    == IF k \in DOMAIN crops THEN crops[k] ELSE run.crops[k]
        name    == IF k \in DOMAIN fileNames /\ Trim(fileNames[k]) # <<>>
                      THEN Trim(fileNames[k]) ELSE run.baseName
        pushed  == [run EXCEPT !.results =
                       Append(@, ExportFile(run.pc, run.files[k], crop, LayoutW(run),
                                            name, options, run.files[k].size, blobSize,
                                            run.i))]
    IN  IF ExportNext(run.pc, run.fileSettings[k]) = "return"
           THEN AfterExports(pushed)
           ELSE [pushed EXCEPT !.pc = ExportNext(run.pc, run.fileSettings[k])]

\* an awaited generate* resolved with blobSize bytes: its file is pushed and
\* processExports goes on
AfterEncode(run, blobSize) ==
    LET options == run.fileSettings[run.i + 1]
        pushed  == [run EXCEPT !.results =
                       Append(@, ExportFile(run.pc, run.files[run.i + 1],
                                            run.crops[run.i + 1], LayoutW(run),
                                            run.baseName, options,
                                            run.files[run.i + 1].size, blobSize, run.i))]
    IN  IF ExportNext(run.pc, options) = "return"
           THEN AfterExports(pushed)
           ELSE [pushed EXCEPT !.pc = ExportNext(run.pc, options)]

\* what was collected is published when the run fails, too
RunEffectsPublishPartial(run) ==
    /\ results' = IF run.pc \in {"done", "failed"} THEN Some(run.batchResults) ELSE results
    /\ isProcessing' = IF run.pc \in {"done", "failed"} THEN FALSE ELSE isProcessing
    /\ lastAlert' = IF run.pc = "failed" THEN "error" ELSE lastAlert

\* the flag cleared at the end of the try block, not in a finally
RunEffectsNoFinally(run) ==
    /\ results' = IF run.pc = "done" THEN Some(run.batchResults) ELSE results
    /\ isProcessing' = IF run.pc = "done" THEN FALSE ELSE isProcessing
    /\ lastAlert' = IF run.pc = "failed" THEN "error" ELSE lastAlert

\* the state updates a run makes when it reaches its end:
\* setResults(batchResults) on success, then finally setIsProcessing(false)
RunEffects(run) ==
    /\ results' = IF run.pc = "done" THEN Some(run.batchResults) ELSE results
    /\ isProcessing' = IF run.pc \in {"done", "failed"} THEN FALSE ELSE isProcessing
    /\ lastAlert' = IF run.pc = "failed" THEN "error" ELSE lastAlert

\* a step of run r that leaves it as next; run is evaluated once
RunStep(r, run) ==
    /\ \E next \in {run} : /\ runs' = [runs EXCEPT ![r] = next]
                           /\ RunEffects(next)
    /\ UNCHANGED <<files, previewSrc, thumbnails, currentFileIndex, crops,
                   editorLayoutWidth, fileSettings, fileNames, batchNameInput,
                   pendingLoads, zip, ops, job, tf>>
    /\ Render

\* the 100 ms timer of handleGenerate fires
TimerFires(r) ==
    /\ runs[r].pc = "timer"
    /\ RunStep(r, LoopFrom(runs[r], 0))

\* img.onload
DecodeDone(r) ==
    /\ runs[r].pc = "decode"
    /\ RunStep(r, AfterDecode(runs[r]))

\* img.onerror: the rejection is outside the inner try, so the object URL is
\* not revoked; catch alerts, finally clears the flag
DecodeFail(r) ==
    /\ runs[r].pc = "decode"
    /\ RunStep(r, [runs[r] EXCEPT !.pc = "failed", !.inflight = @ \ {runs[r].i},
                                  !.errors = @ + 1])

\* canvas.toBlob (and, for a PDF, the FileReader) delivered the bytes
EncodeDone(r, blobSize) ==
    /\ runs[r].pc \in Stages
    /\ Encodable(runs[r].pc, runs[r].files[runs[r].i + 1],
                 runs[r].fileSettings[runs[r].i + 1])
    /\ RunStep(r, AfterEncode(runs[r], blobSize))

\* no canvas context, no blob or a reader error: processExports rejects
EncodeFail(r) ==
    /\ runs[r].pc \in Stages
    /\ RunStep(r, [runs[r] EXCEPT !.pc = "failed", !.urls = @ \ {runs[r].i},
                                  !.inflight = @ \ {runs[r].i}, !.errors = @ + 1])

\* ------------------------------------------- processExports, called on its own

\* Arguments a caller can pass.
BaseNameArgs == { <<"a">>, <<"c", "_", "1">> }
ScaleArgs == {0, 1, 50, 100, 150}
OptionArgs == [includePdf : BOOLEAN, includeWebpFixed : BOOLEAN,
               includeResize : BOOLEAN, resizeScale : ScaleArgs]
ImageArgs == {[nat |-> f.nat] : f \in FileSet} \cup {[nat |-> <<150, 50>>]}
ExportCropArgs == {DefaultCrop} \cup CropInputs
ReferenceWidthArgs == {2, 500}
FileSizeArgs == {0, 8, 1048576}

\* one call of processExports: its arguments, the await it is suspended at
\* and its local results
ExportCalls == [image : ImageArgs, crop : ExportCropArgs,
                referenceWidthPx : ReferenceWidthArgs, baseName : BaseNameArgs,
                options : OptionArgs, originalFileSize : FileSizeArgs,
                pc : {"call"}, results : {<<>>}]

\* processExports is entered and runs up to its first await
CallEntered(call) == [call EXCEPT !.pc = ExportEntry(call.options)]

\* a file of few bytes left out of the list
CallEncodedDropsSmall(call, blobSize) ==
    [call EXCEPT !.results = IF blobSize < 1024 THEN @
                             ELSE Append(@, ExportFile(call.pc, call.image, call.crop,
                                                       call.referenceWidthPx, call.baseName,
                                                       call.options, call.originalFileSize,
                                                       blobSize, 0)),
                 !.pc = ExportNext(call.pc, call.options)]

\* the awaited generate* resolved with blobSize bytes
CallEncoded(call, blobSize) ==
    [call EXCEPT !.results = Append(@, ExportFile(call.pc, call.image, call.crop,
                                                  call.referenceWidthPx, call.baseName,
                                                  call.options, call.originalFileSize,
                                                  blobSize, 0)),
                 !.pc = ExportNext(call.pc, call.options)]

\* the awaited generate* rejected
CallRejected(call) == [call EXCEPT !.pc = "rejected"]

InitExports ==
    /\ InitApp
    /\ ed = EditorOff
    /\ tf = <<>>
    /\ job \in ExportCalls

ExportsCall ==
    /\ job.pc = "call"
    /\ job' = CallEntered(job)
    /\ UNCHANGED <<appVars, tf, ed>>

ExportsEncodeDone(blobSize) ==
    /\ job.pc \in Stages
    /\ Encodable(job.pc, job.image, job.options)
    /\ job' = CallEncoded(job, blobSize)
    /\ UNCHANGED <<appVars, tf, ed>>

ExportsEncodeFail ==
    /\ job.pc \in Stages
    /\ job' = CallRejected(job)
    /\ UNCHANGED <<appVars, tf, ed>>

NextExports ==
    \/ ExportsCall
    \/ \E blobSize \in BlobSizes : ExportsEncodeDone(blobSize)
    \/ ExportsEncodeFail

SpecExports == InitExports /\ [][NextExports]_vars

\* ------------------------------------------- two calls of processExports

\* Two calls on the same image, base name, options and file size; the crop
\* and the reference width of each call are free.
PairScaleArgs == {50, 150}
PairBlobSizes == {5, 524288}
PairCalls ==
    {c \in ExportCalls : /\ c.options.resizeScale \in PairScaleArgs
                         /\ c.baseName = <<"a">>
                         /\ c.originalFileSize = 8}

InitExportPair ==
    /\ InitApp
    /\ ed = EditorOff
    /\ tf = <<>>
    /\ job \in {j \in [a : PairCalls, b : PairCalls] :
                   /\ j.a.image = j.b.image
                   /\ j.a.options = j.b.options}

PairCall(side) ==
    /\ job[side].pc = "call"
    /\ job' = [job EXCEPT ![side] = CallEntered(@)]
    /\ UNCHANGED <<appVars, tf, ed>>

PairEncodeDone(side, blobSize) ==
    /\ job[side].pc \in Stages
    /\ Encodable(job[side].pc, job[side].image, job[side].options)
    /\ job' = [job EXCEPT ![side] = CallEncoded(@, blobSize)]
    /\ UNCHANGED <<appVars, tf, ed>>

PairEncodeFail(side) ==
    /\ job[side].pc \in Stages
    /\ job' = [job EXCEPT ![side] = CallRejected(@)]
    /\ UNCHANGED <<appVars, tf, ed>>

NextExportPair ==
    \/ \E side \in {"a", "b"} : PairCall(side)
    \/ \E side \in {"a", "b"} : \E blobSize \in PairBlobSizes : PairEncodeDone(side, blobSize)
    \/ \E side \in {"a", "b"} : PairEncodeFail(side)

SpecExportPair == InitExportPair /\ [][NextExportPair]_vars

\* ------------------------------------------------ generateZip, called on its own

\* most BatchResults in a list handed to generateZip
MaxResults == 2

\* the list processExports returns when every awaited stage resolves
RECURSIVE ExportsFrom(_, _, _, _, _)
ExportsFrom(stage, image, baseName, options, i) ==
    IF stage = "return" THEN <<>>
    ELSE <<ExportFile(stage, image, DefaultCrop, 500, baseName, options, 0, 5, i)>>
            \o ExportsFrom(ExportNext(stage, options), image, baseName, options, i)

\* BatchResults a batch run can push: a base name and the exports of an image
\* with at least one output selected
BatchResultArgs(i) ==
    { [originalName |-> b,
       files |-> ExportsFrom(ExportEntry(o), CHOOSE f \in FileSet : f.name = <<"b">>, b, o, i)] :
        b \in BaseNameArgs,
        o \in {a \in OptionArgs : HasOutput(a) /\ a.resizeScale = 50} }

\* the lists of n BatchResults, the k-th one exported from image k - 1
RECURSIVE BatchListsOfLen(_)
BatchListsOfLen(n) ==
    IF n = 0 THEN {<<>>}
    ELSE {Append(l, b) : l \in BatchListsOfLen(n - 1), b \in BatchResultArgs(n - 1)}

BatchListArgs == UNION {BatchListsOfLen(n) : n \in 1..MaxResults}

InitZip ==
    /\ InitApp
    /\ ed = EditorOff
    /\ tf = <<>>
    /\ job \in [batchResults : BatchListArgs, pc : {"call"}, archive : {<<>>}]

ZipCall ==
    /\ job.pc = "call"
    /\ job' = [job EXCEPT !.pc = "zipped", !.archive = GenerateZip(job.batchResults)]
    /\ UNCHANGED <<appVars, tf, ed>>

NextZip == ZipCall

SpecZip == InitZip /\ [][NextZip]_vars

\* --------------------------------------------- the transform, evaluated alone

CropArgs == [x : {<<0 - 1, 1>>, <<0, 1>>, <<3, 2>>},
             y : {<<0, 1>>, <<1, 1>>},
             scale : {<<1, 2>>, <<1, 1>>, <<2, 1>>}]

\* Two targets of widths tw1 and tw2 and the same aspect (height = width x
\* aspect) are drawn from one crop and one reference width.
InitTransform ==
    /\ InitApp
    /\ ed = EditorOff
    /\ job = <<>>
    /\ tf \in [nat : {f.nat : f \in FileSet}, crop : CropArgs,
               refW : 1..MaxWidth, tw1 : 1..MaxWidth, tw2 : 1..MaxWidth,
               aspect : {1, 2}, pc : {"args"}, rect1 : {<<>>}, rect2 : {<<>>}]

TransformDraw ==
    /\ tf.pc = "args"
    /\ tf' = [tf EXCEPT !.pc = "drawn",
                        !.rect1 = DrawRect(tf.nat, tf.crop, tf.tw1, tf.tw1 * tf.aspect, tf.refW),
                        !.rect2 = DrawRect(tf.nat, tf.crop, tf.tw2, tf.tw2 * tf.aspect, tf.refW)]
    /\ UNCHANGED <<appVars, job, ed>>

NextTransform == TransformDraw

SpecTransform == InitTransform /\ [][NextTransform]_vars

\* ------------------------------------------- base-name resolution, on its own

\* longest file name and longest typed name tried
MaxNameLen == 3

\* every string of 1..n characters over an alphabet
StringsOver(alphabet, n) == UNION {[1..k -> alphabet] : k \in 1..n}

\* File names and typed names; a typed name of null is a name field the user
\* never edited.
FileNameArgs == StringsOver({"a", "."}, MaxNameLen)
TypedArgs == {null} \cup {Some(t) : t \in {<<>>} \cup StringsOver({" ", "c"}, MaxNameLen)}

InitNames ==
    /\ InitApp
    /\ ed = EditorOff
    /\ tf = <<>>
    /\ job \in [fileName : FileNameArgs, typed : TypedArgs, pc : {"call"},
                entry : {<<>>}, baseName : {<<>>}]

\* handleImageSelect fills the name field with the stripped file name,
\* handleNameChange replaces it with what was typed, and the batch loop
\* resolves the base name of the image
NamesResolve ==
    /\ job.pc = "call"
    /\ LET entry == IF job.typed = null THEN StripExt(job.fileName) ELSE Get(job.typed)
       IN  job' = [job EXCEPT !.pc = "resolved",
                              !.entry = entry,
                              !.baseName = ResolveBaseName(<<entry>>,
                                                           <<[name |-> job.fileName]>>, 0)]
    /\ UNCHANGED <<appVars, tf, ed>>

NextNames == NamesResolve

SpecNames == InitNames /\ [][NextNames]_vars

\* ------------------------------------------------ a session in the crop editor

\* What is selected, and the output toggled, in a session that follows the editor.
EditorSelections ==
    {s \in Selections : /\ Len(s) <= 2
                        /\ s[1].name = <<"a", ".", "p">>
                        /\ Len(s) = 2 => s[2].name = <<"a", ".", "j">>}
EditorToggleKeys == {"includePdf"}

InitEditor ==
    InitState /\ ops = MaxSessionOps /\ job = <<>> /\ tf = <<>> /\ ed = Unmounted(0)

NextEditor ==
    \/ \E selectedFiles \in EditorSelections : HandleImageSelect(selectedFiles)
    \/ \E src \in pendingLoads : PreviewLoaded(src)
    \/ \E index \in 0..(MaxFiles - 1) : SwitchFile(index)
    \/ \E key \in EditorToggleKeys : ToggleOption(key)
    \/ ApplySettingsToAll
    \/ ApplyCropToAll
    \/ HandleReset
    \/ \E load \in ed.loading : EdImageLoaded(load)
    \/ \E size \in CanvasArgs : EdDraw(size[1], size[2])
    \/ \E pt \in PointerArgs : EdMouseDown(pt)
    \/ \E pt \in PointerArgs : EdMouseMove(pt)
    \/ EdMouseUp
    \/ \E newScale \in ZoomArgs : EdZoom(newScale)
    \/ EdCenter
    \/ EdFit
    \/ EdFill

SpecEditor == InitEditor /\ [][NextEditor]_vars

\* ------------------------------------------ a single image framed in the editor

\* One image is selected: the tall one, or the one wider than the frame.
FramingSelections ==
    {<<TallImage>>} \cup {s \in Selections : Len(s) = 1 /\ s[1].name = <<"a", ".", "j">>}

InitFraming == InitEditor

NextFraming ==
    \/ \E selectedFiles \in FramingSelections : HandleImageSelect(selectedFiles)
    \/ \E src \in pendingLoads : PreviewLoaded(src)
    \/ \E key \in EditorToggleKeys : ToggleOption(key)
    \/ \E load \in ed.loading : EdImageLoaded(load)
    \/ \E size \in CanvasArgs : EdDraw(size[1], size[2])
    \/ \E pt \in PointerArgs : EdMouseDown(pt)
    \/ \E pt \in PointerArgs : EdMouseMove(pt)
    \/ EdMouseUp
    \/ \E newScale \in ZoomArgs : EdZoom(newScale)
    \/ EdCenter
    \/ EdFit
    \/ EdFill

SpecFraming == InitFraming /\ [][NextFraming]_vars

\* ------------------------------------------------- edits while a batch runs

\* What is selected, toggled and typed in a session that edits during a batch.
FlightSelections ==
    {s \in Selections : /\ Len(s) <= 2
                        /\ s[1].name = <<"a", ".", "j">>
                        /\ Len(s) = 2 => s[2].name = <<"b">>}
FlightToggleKeys == {"includePdf"}
FlightNameInputs == { <<" ", "c">> }

InitFlight ==
    InitState /\ ops = MaxSessionOps /\ job = <<>> /\ tf = <<>> /\ ed = EditorOff

NextFlight ==
    \/ \E selectedFiles \in FlightSelections : HandleImageSelect(selectedFiles)
    \/ \E src \in pendingLoads : PreviewLoaded(src)
    \/ \E newCrop \in CropInputs : HandleCropChange(newCrop)
    \/ \E newName \in FlightNameInputs : HandleNameChange(currentFileIndex, newName)
    \/ \E key \in FlightToggleKeys : ToggleOption(key)
    \/ ApplyCropToAll
    \/ ApplySettingsToAll
    \/ HandleGenerate
    \/ \E r \in DOMAIN runs : TimerFires(r)
    \/ \E r \in DOMAIN runs : DecodeDone(r)
    \/ \E r \in DOMAIN runs : DecodeFail(r)
    \/ \E r \in DOMAIN runs : \E blobSize \in BatchBlobSizes : EncodeDone(r, blobSize)
    \/ \E r \in DOMAIN runs : EncodeFail(r)

SpecFlight == InitFlight /\ [][NextFlight]_vars

\* ------------------------------------- switching and resetting during loads

\* A session that switches between two images and starts over while preview
\* loads and a batch run are under way.
PreviewBatchNames == { <<"c", " ">> }

InitPreview ==
    InitState /\ ops = MaxSessionOps /\ job = <<>> /\ tf = <<>> /\ ed = EditorOff

NextPreview ==
    \/ \E selectedFiles \in FlightSelections : HandleImageSelect(selectedFiles)
    \/ \E src \in pendingLoads : PreviewLoaded(src)
    \/ \E index \in 0..(MaxFiles - 1) : SwitchFile(index)
    \/ \E newCrop \in CropInputs : HandleCropChange(newCrop)
    \/ \E newName \in FlightNameInputs : HandleNameChange(currentFileIndex, newName)
    \/ \E value \in PreviewBatchNames : SetBatchNameInput(value)
    \/ ApplyBatchRename
    \/ ApplyCropToAll
    \/ ApplySettingsToAll
    \/ \E key \in FlightToggleKeys : ToggleOption(key)
    \/ HandleGenerate
    \/ \E r \in DOMAIN runs : TimerFires(r)
    \/ \E r \in DOMAIN runs : DecodeDone(r)
    \/ \E r \in DOMAIN runs : DecodeFail(r)
    \/ \E r \in DOMAIN runs : \E blobSize \in BatchBlobSizes : EncodeDone(r, blobSize)
    \/ \E r \in DOMAIN runs : EncodeFail(r)
    \/ HandleReset

SpecPreview == InitPreview /\ [][NextPreview]_vars

\* ------------------------------------------------------ a batch run to its end

\* A session in which images are selected, an output is toggled and Generate
\* is invoked, followed to the end of every run.
InitRun == InitApp /\ job = <<>> /\ tf = <<>> /\ ed = EditorOff

NextRun ==
    \/ \E selectedFiles \in FlightSelections : HandleImageSelect(selectedFiles)
    \/ \E src \in pendingLoads : PreviewLoaded(src)
    \/ \E key \in FlightToggleKeys : ToggleOption(key)
    \/ HandleGenerate
    \/ \E r \in DOMAIN runs : TimerFires(r)
    \/ \E r \in DOMAIN runs : DecodeDone(r)
    \/ \E r \in DOMAIN runs : DecodeFail(r)
    \/ \E r \in DOMAIN runs : \E blobSize \in BatchBlobSizes : EncodeDone(r, blobSize)
    \/ \E r \in DOMAIN runs : EncodeFail(r)

\* The browser runs what it has queued: the 100 ms timer fires, every image
\* load settles (onload or onerror) and every encode settles (a blob, or none).
\* Nothing makes the user act.
RunFairness ==
    /\ WF_vars(\E r \in DOMAIN runs : TimerFires(r))
    /\ WF_vars(\E r \in DOMAIN runs : DecodeDone(r) \/ DecodeFail(r))
    /\ WF_vars(\E r \in DOMAIN runs :
                  \/ EncodeFail(r)
                  \/ \E blobSize \in BatchBlobSizes : EncodeDone(r, blobSize))

SpecRunFair == InitRun /\ [][NextRun]_vars /\ RunFairness

\* ------------------------------------------------------------- specification

Init == InitApp /\ job = <<>> /\ tf = <<>> /\ ed = EditorOff

Next ==
    \/ \E selectedFiles \in Selections : HandleImageSelect(selectedFiles)
    \/ \E src \in pendingLoads : PreviewLoaded(src)
    \/ \E index \in 0..(MaxFiles - 1) : SwitchFile(index)
    \/ \E newCrop \in CropInputs : HandleCropChange(newCrop)
    \/ \E width \in LayoutInputs : OnLayoutChange(width)
    \/ \E newName \in NameInputs : HandleNameChange(currentFileIndex, newName)
    \/ \E value \in BatchNameInputs : SetBatchNameInput(value)
    \/ ApplyBatchRename
    \/ ApplyCropToAll
    \/ ApplySettingsToAll
    \/ ApplyScaleToAll
    \/ \E key \in {"includePdf", "includeWebpFixed", "includeResize"} : ToggleOption(key)
    \/ \E val \in ScaleInputs : UpdateResizeScale(val)
    \/ HandleGenerate
    \/ \E r \in DOMAIN runs : TimerFires(r)
    \/ \E r \in DOMAIN runs : DecodeDone(r)
    \/ \E r \in DOMAIN runs : DecodeFail(r)
    \/ \E r \in DOMAIN runs : \E blobSize \in BatchBlobSizes : EncodeDone(r, blobSize)
    \/ \E r \in DOMAIN runs : EncodeFail(r)
    \/ HandleReset
    \/ DownloadZip

Spec == Init /\ [][Next]_vars

\* ===================================================================== claims

Range(seq) == {seq[k] : k \in DOMAIN seq}

\* does the name end with the suffix token
EndsWith(name, suffix) == name # <<>> /\ name[Len(name)] = suffix

\* every GeneratedFile a batch run holds or has published
ProducedFiles ==
    UNION { Range(runs[r].results)
              \cup UNION { Range(b.files) : b \in Range(runs[r].batchResults) } :
            r \in DOMAIN runs }
      \cup (IF results = null THEN {} ELSE UNION { Range(b.files) : b \in Range(Get(results)) })

\* C1  Transform scaling law: for a fixed crop and reference width, the draw
\* position relative to the frame centre scales linearly with the target
\* width: drawX(Wt2) - Wt2/2 = (drawX(Wt1) - Wt1/2) * (Wt2/Wt1).
TransformScalingLaw ==
    tf.pc = "drawn" =>
        REq(RSub(tf.rect2.x, RDiv(RNum(tf.tw2), RNum(2))),
            RMul(RSub(tf.rect1.x, RDiv(RNum(tf.tw1), RNum(2))),
                 RDiv(RNum(tf.tw2), RNum(tf.tw1))))

\* two different targets drawn from an off-centre, zoomed crop
TransformScalingWitness ==
    /\ tf.pc = "drawn"
    /\ tf.tw1 # tf.tw2
    /\ tf.refW \notin {tf.tw1, tf.tw2}
    /\ tf.crop.x[1] # 0
    /\ tf.crop.scale # <<1, 1>>

\* C2  The A1 print raster: page 60.0 x 84.7 cm (trim 59.4 x 84.1 cm plus 3 mm
\* bleed on each side), pixel size exactly 7087 x 10004.
A1RasterExact ==
    \A f \in ProducedFiles :
        EndsWith(f.name, "_A1.pdf") =>
            /\ f.pageMm = <<600, 847>>
            /\ f.canvas = <<7087, 10004>>

\* a published A1 PDF
A1RasterWitness ==
    /\ results # null
    /\ \E b \in Range(Get(results)) : \E f \in Range(b.files) : EndsWith(f.name, "_A1.pdf")

\* C3 (as stated)  The A2 print raster: page 42.6 x 60.0 cm, pixel size
\* exactly 5029 x 7087.
A2RasterAsStated ==
    \A f \in ProducedFiles :
        EndsWith(f.name, "_A2.pdf") =>
            /\ f.pageMm = <<426, 600>>
            /\ f.canvas = <<5029, 7087>>

\* C3 (amended)  The A2 print raster: page 42.6 x 60.0 cm (trim 42.0 x 59.4 cm
\* plus 3 mm bleed on each side), pixel size exactly 5032 x 7087, the ceiling
\* of total_cm x 118.1102 per axis.
A2RasterExact ==
    \A f \in ProducedFiles :
        EndsWith(f.name, "_A2.pdf") =>
            /\ f.pageMm = <<426, 600>>
            /\ f.canvas = <<5032, 7087>>
            /\ f.canvas[1] * 100000 >= 426 * DPI_300_PPCM_E4
            /\ (f.canvas[1] - 1) * 100000 < 426 * DPI_300_PPCM_E4

\* a published A2 PDF
A2RasterWitness ==
    /\ results # null
    /\ \E b \in Range(Get(results)) : \E f \in Range(b.files) : EndsWith(f.name, "_A2.pdf")

\* the names processExports is to return for a base name and options
ExpectedNames(baseName, options) ==
    (IF options.includePdf THEN <<baseName \o <<"_A1.pdf">>, baseName \o <<"_A2.pdf">>>>
                           ELSE <<>>)
      \o (IF options.includeWebpFixed THEN <<baseName \o <<"_web.webp">>>> ELSE <<>>)
      \o (IF options.includeResize THEN <<baseName \o <<"_small.webp">>>> ELSE <<>>)

\* C4  processExports returns exactly the files of the enabled targets, in the
\* order A1 PDF, A2 PDF, fixed thumbnail, resize, named {baseName}_A1.pdf,
\* {baseName}_A2.pdf, {baseName}_web.webp, {baseName}_small.webp; with no flag
\* enabled the list is empty.
ExportsReturnEnabledTargets ==
    job.pc = "return" =>
        /\ [k \in 1..Len(job.results) |-> job.results[k].name]
              = ExpectedNames(job.baseName, job.options)
        /\ (~HasOutput(job.options) => job.results = <<>>)

\* a call with every flag enabled has returned its four files
ExportsReturnWitness ==
    /\ job.pc = "return"
    /\ job.options.includePdf /\ job.options.includeWebpFixed /\ job.options.includeResize
    /\ Len(job.results) = 4

\* the image (0-based index) a BatchResult was exported from
SourceOf(batch) == batch.files[1].blob[1]

\* C5  Within one batch run the images are processed one after another in
\* input order: at most one image is being decoded or exported, it is the one
\* at the loop index, and every image already exported comes before it.
BatchSequential ==
    \A r \in DOMAIN runs :
        LET run == runs[r]
        IN  /\ Cardinality(run.inflight) <= 1
            /\ run.pc \in Awaiting => run.inflight = {run.i}
            /\ run.pc \notin Awaiting => run.inflight = {}
            /\ \A k \in DOMAIN run.batchResults :
                  /\ SourceOf(run.batchResults[k]) < run.i
                  /\ \A j \in DOMAIN run.batchResults :
                        j < k => SourceOf(run.batchResults[j]) < SourceOf(run.batchResults[k])

\* the second image is being exported after the first one's outputs were collected
BatchSequentialWitness ==
    \E r \in DOMAIN runs :
        /\ runs[r].pc \in Stages
        /\ runs[r].i = 1
        /\ Len(runs[r].batchResults) = 1

\* C6  A failed decode or export aborts the batch: the failed run processes
\* nothing more, what it had collected is not published (the published
\* results stay as they are, and they were null when the run was started),
\* and the run raises one error alert and clears the processing flag.
FailureAbortsBatch ==
    /\ [](\A r \in DOMAIN runs :
             /\ runs[r].errors = (IF runs[r].pc = "failed" THEN 1 ELSE 0)
             /\ runs[r].pc = "failed" => runs[r].inflight = {})
    /\ [][ /\ Len(runs') > Len(runs) => results = null
           /\ \A r \in DOMAIN runs :
                 /\ runs[r].pc = "failed" => runs'[r] = runs[r]
                 /\ (runs[r].pc # "failed" /\ runs'[r].pc = "failed") =>
                        /\ results' = results
                        /\ lastAlert' = "error"
                        /\ isProcessing' = FALSE ]_vars

\* the second image failed after the first one was exported; nothing is published
FailureAbortsWitness ==
    \E r \in DOMAIN runs :
        /\ runs[r].pc = "failed"
        /\ Len(runs[r].batchResults) = 1
        /\ runs[r].i = 1 /\ Len(runs[r].files) = 2
        /\ results = null
        /\ lastAlert = "error"

\* C7  Generate with no output format selected is rejected before any work
\* starts: every run that exists was started with at least one image and at
\* least one output selected, and without a run the processing flag is false
\* and nothing is published.
NoOutputRejected ==
    /\ \A r \in DOMAIN runs :
          /\ runs[r].files # <<>>
          /\ \E k \in DOMAIN runs[r].fileSettings :
                \/ runs[r].fileSettings[k].includePdf
                \/ runs[r].fileSettings[k].includeWebpFixed
                \/ runs[r].fileSettings[k].includeResize
    /\ runs = <<>> => (~isProcessing /\ results = null)

\* Generate was rejected with the alert; no run, flag false, nothing published
NoOutputRejectedWitness ==
    /\ lastAlert = "select output"
    /\ files # <<>>
    /\ \A k \in DOMAIN fileSettings : ~HasOutput(fileSettings[k])
    /\ runs = <<>>
    /\ ~isProcessing
    /\ results = null

\* is the path inside a folder
InFolder(path) == \E k \in DOMAIN path : path[k] = "/"

\* the entries generateZip is to put into the folder of a result
FolderEntries(batch) ==
    { [path |-> batch.originalName \o <<"/">> \o f.name, blob |-> f.blob] :
        f \in Range(batch.files) }

\* C8  For more than one BatchResult, generateZip creates one folder per
\* result, named by its base name, holding exactly that result's files: as
\* many folders as results, and no file lost.
ZipFolderPerResult ==
    (zip # null /\ Len(Get(zip).batchResults) > 1) =>
        LET z == Get(zip)
        IN  /\ Cardinality(z.folders) = Len(z.batchResults)
            /\ \A k \in DOMAIN z.batchResults :
                  /\ z.batchResults[k].originalName \in z.folders
                  /\ FolderEntries(z.batchResults[k]) \subseteq z.files
                  /\ \A j \in DOMAIN z.batchResults :
                        j # k => FolderEntries(z.batchResults[j])
                                    \cap FolderEntries(z.batchResults[k]) = {}

ExpectedBaseName(run, i) ==
    IF Trim(run.fileNames[i + 1]) # <<>> THEN Trim(run.fileNames[i + 1])
    ELSE LET name == run.files[i + 1].name
             dot  == LastIndexOf(name, ".")
         IN  IF dot > 0 THEN SubSeq(name, 1, dot) ELSE name

\* C10 (as stated)  A run that completes publishes exactly one BatchResult per
\* source image, in input order, each keyed by the image's resolved base name.
PublishesOnePerImage ==
    \A r \in DOMAIN runs :
        runs[r].pc = "done" =>
            /\ Len(runs[r].batchResults) = Len(runs[r].files)
            /\ \A k \in DOMAIN runs[r].batchResults :
                  /\ SourceOf(runs[r].batchResults[k]) = k - 1
                  /\ runs[r].batchResults[k].originalName = ExpectedBaseName(runs[r], k - 1)

\* the images of a run that have an output selected, as 0-based indices
Selected(run) == {i \in 0..(Len(run.files) - 1) : HasOutput(run.fileSettings[i + 1])}

\* C10 (amended)  A run that completes publishes exactly one BatchResult per
\* source image that has at least one output selected, in input order, each
\* keyed by the image's resolved base name; an image with no output selected
\* gets no BatchResult.
PublishesOnePerSelectedImage ==
    /\ [](\A r \in DOMAIN runs :
             runs[r].pc = "done" =>
                /\ {SourceOf(b) : b \in Range(runs[r].batchResults)} = Selected(runs[r])
                /\ Len(runs[r].batchResults) = Cardinality(Selected(runs[r]))
                /\ \A k \in DOMAIN runs[r].batchResults :
                      /\ \A j \in DOMAIN runs[r].batchResults :
                            j < k => SourceOf(runs[r].batchResults[j])
                                        < SourceOf(runs[r].batchResults[k])
                      /\ runs[r].batchResults[k].originalName
                            = ExpectedBaseName(runs[r], SourceOf(runs[r].batchResults[k])))
    /\ [][\A r \in DOMAIN runs :
             (runs[r].pc # "done" /\ runs'[r].pc = "done") =>
                 results' = Some(runs'[r].batchResults)]_vars

\* a completed run of two images, one of them without outputs, has published
\* the single result of the other
PublishesWitness ==
    /\ results # null
    /\ \E r \in DOMAIN runs :
          /\ runs[r].pc = "done"
          /\ Len(runs[r].files) = 2
          /\ Cardinality(Selected(runs[r])) = 1
          /\ Get(results) = runs[r].batchResults
          /\ Len(Get(results)) = 1

\* C11  Every object URL created for an image is revoked before the batch
\* moves on from that image: a run holds at most the URL of the image it is
\* decoding or exporting, and none once it has ended, whether the image
\* exported, failed to export or failed to decode.
ObjectUrlsReleased ==
    \A r \in DOMAIN runs :
        /\ runs[r].pc \in Awaiting => runs[r].urls = {runs[r].i}
        /\ runs[r].pc \notin Awaiting => runs[r].urls = {}

\* a string without its leading and trailing blanks
Stripped(s) ==
    LET solid == {k \in DOMAIN s : s[k] # " "}
    IN  IF solid = {} THEN <<>>
        ELSE SubSeq(s, CHOOSE k \in solid : \A j \in solid : k <= j,
                       CHOOSE k \in solid : \A j \in solid : j <= k)

\* the 1-based positions of '.' in a name
Dots(name) == {k \in DOMAIN name : name[k] = "."}

\* a name with everything from its last '.' removed
BeforeLastDot(name) ==
    IF Dots(name) = {} THEN name
    ELSE SubSeq(name, 1, (CHOOSE k \in Dots(name) : \A j \in Dots(name) : j <= k) - 1)

\* C12 (as stated)  The resolved base name is the trimmed custom filename when
\* that is non-empty, and otherwise the original filename with everything from
\* its last '.' removed.
BaseNameAsStated ==
    job.pc = "resolved" =>
        job.baseName = (IF Stripped(job.entry) # <<>> THEN Stripped(job.entry)
                        ELSE BeforeLastDot(job.fileName))

\* C12 (amended)  The resolved base name is the trimmed custom filename when
\* that is non-empty, and otherwise the original filename with everything from
\* its last '.' removed, or the whole original filename when nothing precedes
\* its last '.'.
BaseNameResolved ==
    job.pc = "resolved" =>
        job.baseName = (IF Stripped(job.entry) # <<>> THEN Stripped(job.entry)
                        ELSE IF BeforeLastDot(job.fileName) # <<>>
                                THEN BeforeLastDot(job.fileName)
                                ELSE job.fileName)

\* a blank typed name fell back to a file name with two dots, cut at the last
BaseNameWitness ==
    /\ job.pc = "resolved"
    /\ job.typed = Some(<<" ">>)
    /\ job.fileName = <<"a", ".", ".">>
    /\ job.baseName = <<"a", ".">>

\* the files of a list whose name ends with the suffix token
FilesNamed(fileList, suffix) == {f \in Range(fileList) : EndsWith(f.name, suffix)}

\* the whole image on a raster of w x h pixels, and nothing else
WholeImageAt(f) ==
    /\ Len(f.painted) = 1
    /\ f.painted[1].op = "drawImage"
    /\ f.painted[1].rect = [x |-> <<0, 1>>, y |-> <<0, 1>>,
                            w |-> <<f.canvas[1], 1>>, h |-> <<f.canvas[2], 1>>]

\* C13  The resize output is independent of the crop: two calls on the same
\* image and the same resize percentage, with any two crops and any two
\* reference widths, give resize files with identical pixel dimensions and
\* identical draw rectangle, the whole image at (0, 0, targetW, targetH).
ResizeCropIndependent ==
    (job.a.pc = "return" /\ job.b.pc = "return") =>
        \A fa \in FilesNamed(job.a.results, "_small.webp") :
            \A fb \in FilesNamed(job.b.results, "_small.webp") :
                /\ fa.canvas = fb.canvas
                /\ fa.painted = fb.painted
                /\ fa.dimensions = fb.dimensions
                /\ WholeImageAt(fa)

\* two calls with different crops and reference widths returned a resize file
\* each, and their thumbnails are drawn differently
ResizeCropIndependentWitness ==
    /\ job.a.pc = "return" /\ job.b.pc = "return"
    /\ job.a.crop # job.b.crop
    /\ job.a.referenceWidthPx # job.b.referenceWidthPx
    /\ FilesNamed(job.a.results, "_small.webp") # {}
    /\ FilesNamed(job.b.results, "_small.webp") # {}
    /\ \E fa \in FilesNamed(job.a.results, "_web.webp") :
          \E fb \in FilesNamed(job.b.results, "_web.webp") : fa.painted # fb.painted

\* n is Math.round of num / den (den > 0): within a half, a half rounded up
IsRounded(n, num, den) == (2 * den * n) - den <= 2 * num /\ 2 * num < (2 * den * n) + den

\* clamp(p, 1, 100)
Clamped(p) == IF p < 1 THEN 1 ELSE IF p > 100 THEN 100 ELSE p

\* C14  For every image of natural size Wn x Hn and every requested
\* percentage p, the resize raster has pixel size round(Wn x s) by
\* round(Hn x s) with s = clamp(p, 1, 100) / 100: below 1 behaves as 1, above
\* 100 as 100.
ResizeRasterSize ==
    \A f \in FilesNamed(job.results, "_small.webp") :
        /\ IsRounded(f.canvas[1], job.image.nat[1] * Clamped(job.options.resizeScale), 100)
        /\ IsRounded(f.canvas[2], job.image.nat[2] * Clamped(job.options.resizeScale), 100)
        /\ job.options.resizeScale > 100 => f.canvas = job.image.nat
        /\ job.options.resizeScale < 1 =>
              f.canvas = <<RoundDiv(job.image.nat[1], 100), RoundDiv(job.image.nat[2], 100)>>

\* a request of 150 percent gave a raster of the natural size
ResizeRasterWitness ==
    /\ job.pc = "return"
    /\ job.options.resizeScale = 150
    /\ job.image.nat = <<4, 2>>
    /\ \E f \in FilesNamed(job.results, "_small.webp") : f.canvas = <<4, 2>>

\* C15  When the original byte size is known (> 0), the resize file's size
\* display is "{orig} -> {result} ({arrow}{pct}%)" with pct = round((original -
\* result) / original x 100); the arrow is the down indicator when the result
\* is smaller and the up indicator when it is larger, an increase is never
\* hidden or clamped, and 1,048,576 -> 524,288 gives 50 with the down arrow.
SavingsDisplay ==
    \A f \in FilesNamed(job.results, "_small.webp") :
        job.originalFileSize > 0 =>
            LET text == f.sizeDisplay
                n    == Len(text)
                head == formatBytes(job.originalFileSize) \o <<" ", RightArrow, " ">>
                            \o formatBytes(f.size) \o <<" (">>
            IN  /\ n = Len(head) + 3
                /\ SubSeq(text, 1, n - 3) = head
                /\ text[n] = "%)"
                /\ \E pct \in {RoundDiv((job.originalFileSize - f.size) * 100,
                                        job.originalFileSize)} :
                      /\ IsRounded(pct, (job.originalFileSize - f.size) * 100,
                                   job.originalFileSize)
                      /\ text[n - 1] = ToString(pct)
                      /\ f.size > job.originalFileSize => pct < 0
                /\ f.size < job.originalFileSize => text[n - 2] = DownArrow
                /\ f.size > job.originalFileSize => text[n - 2] = UpArrow
                /\ (job.originalFileSize = 1048576 /\ f.size = 524288) =>
                      text = <<"1", " ", "MB", " ", RightArrow, " ", "512", " ", "KB",
                               " (", DownArrow, "50", "%)">>

\* the worked example: 1,048,576 bytes became 524,288
SavingsDisplayWitness ==
    /\ job.pc = "return"
    /\ job.originalFileSize = 1048576
    /\ \E f \in FilesNamed(job.results, "_small.webp") : f.size = 524288

\* a size increase shown with the up arrow
SavingsIncreaseWitness ==
    /\ job.pc = "return"
    /\ job.originalFileSize = 8
    /\ \E f \in FilesNamed(job.results, "_small.webp") :
          f.size = 9 /\ f.sizeDisplay[Len(f.sizeDisplay) - 2] = UpArrow

\* C16  Export is deterministic in its declared dimensions: two calls of
\* processExports on identical image, crop, reference width, base name and
\* options return lists of the same length with the same names, kinds and
\* declared dimensions at every position, whatever bytes the encoder returns.
ExportsDeterministic ==
    (/\ job.a.pc = "return" /\ job.b.pc = "return"
     /\ job.a.crop = job.b.crop
     /\ job.a.referenceWidthPx = job.b.referenceWidthPx) =>
        /\ Len(job.a.results) = Len(job.b.results)
        /\ \A k \in DOMAIN job.a.results :
              /\ job.a.results[k].name = job.b.results[k].name
              /\ job.a.results[k].type = job.b.results[k].type
              /\ job.a.results[k].dimensions = job.b.results[k].dimensions
              /\ job.a.results[k].canvas = job.b.results[k].canvas

\* two calls on identical arguments returned four files each, the encoder
\* having returned different bytes for a file
ExportsDeterministicWitness ==
    /\ job.a.pc = "return" /\ job.b.pc = "return"
    /\ job.a.crop = job.b.crop
    /\ job.a.referenceWidthPx = job.b.referenceWidthPx
    /\ Len(job.a.results) = 4
    /\ \E k \in DOMAIN job.a.results : job.a.results[k].size # job.b.results[k].size

\* C17  Every rasterization path (A1 print, A2 print, fixed thumbnail and
\* percentage resize) fills the whole target surface with opaque white before
\* it draws the image, so a pixel the image does not cover opaquely is white.
WhiteBeforeImage ==
    \A f \in Range(job.results) :
        /\ Len(f.painted) = 2
        /\ f.painted[1].op = "fillRect"
        /\ f.painted[1].style = "#ffffff"
        /\ f.painted[1].rect = [x |-> <<0, 1>>, y |-> <<0, 1>>,
                                w |-> <<f.canvas[1], 1>>, h |-> <<f.canvas[2], 1>>]
        /\ f.painted[2].op = "drawImage"

\* the three crop-based rasters are filled white before the image is drawn
WhiteBeforeImageCropped ==
    \A f \in Range(job.results) :
        ~EndsWith(f.name, "_small.webp") =>
            /\ Len(f.painted) = 2
            /\ f.painted[1].op = "fillRect"
            /\ f.painted[1].style = "#ffffff"
            /\ f.painted[2].op = "drawImage"

\* width : height of a page given in mm
PageRatio(f) == <<f.pageMm[1], f.pageMm[2]>>

\* C18 (as stated)  The two print targets share the reference frame's aspect
\* ratio: the A2 total size (trim + 2 x bleed) has the same width-to-height
\* ratio as the A1 total size, the ratio of the editor's preview frame.
PrintTargetsShareAspect ==
    /\ \A f \in FilesNamed(job.results, "_A1.pdf") : REq(PageRatio(f), targetAspect)
    /\ \A f \in FilesNamed(job.results, "_A2.pdf") : REq(PageRatio(f), targetAspect)

\* C18 (amended)  The A1 total size 60.0 x 84.7 cm has exactly the ratio of the
\* editor's preview frame (600 : 847); the A2 total size 42.6 x 60.0 cm has the
\* ratio 71 : 100, wider than the frame's by less than a quarter of a percent.
PrintTargetAspects ==
    /\ \A f \in FilesNamed(job.results, "_A1.pdf") :
          /\ REq(PageRatio(f), targetAspect)
          /\ REq(PageRatio(f), <<600, 847>>)
    /\ \A f \in FilesNamed(job.results, "_A2.pdf") :
          /\ REq(PageRatio(f), <<71, 100>>)
          /\ RLess(targetAspect, PageRatio(f))
          /\ RLess(PageRatio(f), RMul(targetAspect, <<401, 400>>))

\* a call returned both print files
PrintTargetAspectsWitness ==
    /\ job.pc = "return"
    /\ FilesNamed(job.results, "_A1.pdf") # {}
    /\ FilesNamed(job.results, "_A2.pdf") # {}

Positive(r) == r[1] > 0 /\ r[2] > 0

CommitAtGestureEnd ==
    [][ /\ (ed'.last = "mousemove" /\ ed'.edits # ed.edits) =>
              /\ ed.dragStart # null
              /\ ed'.dragStart = ed.dragStart
              /\ crops' = crops
        /\ (ed'.last = "mouseup" /\ ed'.edits # ed.edits) =>
              /\ ed'.dragStart = null
              /\ ed'.crop = ed.crop
              /\ crops'[currentFileIndex + 1] = ed'.crop
              /\ \A k \in DOMAIN crops : k # currentFileIndex + 1 => crops'[k] = crops[k]
      ]_vars

\* a drag has ended: the moved crop is committed for the current image
CommitAtGestureEndWitness ==
    /\ ed.mounted
    /\ ed.last = "mouseup"
    /\ ed.crop.x # <<0, 1>>
    /\ crops[currentFileIndex + 1] = ed.crop

\* in the middle of a drag the local crop has moved and the committed one has not
DragInProgressWitness ==
    /\ ed.mounted
    /\ ed.last = "mousemove"
    /\ ed.dragStart # null
    /\ crops[currentFileIndex + 1] # ed.crop

\* what the callback of a run closed over when Generate was invoked
Snapshot(run) ==
    <<run.files, run.fileSettings, run.fileNames, run.crops, run.editorLayoutWidth>>

\* the file as the export makes it from the run's snapshot: image, crop,
\* options and name of the image the file's bytes come from
FromSnapshot(run, f) ==
    LET i == f.blob[1]
    IN  ExportFile(f.blob[2], run.files[i + 1], run.crops[i + 1], LayoutW(run),
                   ResolveBaseName(run.fileNames, run.files, i), run.fileSettings[i + 1],
                   run.files[i + 1].size, f.size, i)

\* every file a run holds, listed or in a BatchResult
FilesOf(run) ==
    Range(run.results) \cup UNION { Range(b.files) : b \in Range(run.batchResults) }

\* C21  A batch run exports from the snapshot taken when Generate was invoked:
\* the new run holds the files, crops, options, names and layout width
\* committed at that moment, no later step changes what a run holds, every
\* file a run produces is the one the export makes from its snapshot, what is
\* published is the result list of a completed run, and a step of a run
\* changes none of the stores of App.
ExportsFromSnapshot ==
    /\ [](/\ \A r \in DOMAIN runs : \A f \in FilesOf(runs[r]) : f = FromSnapshot(runs[r], f)
          /\ results # null =>
                \E r \in DOMAIN runs : /\ runs[r].pc = "done"
                                       /\ Get(results) = runs[r].batchResults)
    /\ [][/\ \A r \in DOMAIN runs :
                /\ r \in DOMAIN runs'
                /\ Snapshot(runs'[r]) = Snapshot(runs[r])
          /\ Len(runs') > Len(runs) =>
                Snapshot(runs'[Len(runs')])
                   = <<files, fileSettings, fileNames, crops, editorLayoutWidth>>
          /\ (runs' # runs /\ Len(runs') = Len(runs)) =>
                UNCHANGED <<files, fileSettings, fileNames, crops, editorLayoutWidth>>]_vars

\* a run has completed with a PDF of the first image although the crop of
\* that image was committed anew, and the image renamed, while it ran
ExportsFromSnapshotWitness ==
    \E r \in DOMAIN runs :
        /\ runs[r].pc = "done"
        /\ results = Some(runs[r].batchResults)
        /\ Len(crops) = Len(runs[r].crops)
        /\ crops[1] # runs[r].crops[1]
        /\ \E f \in FilesOf(runs[r]) : f.blob = <<0, "a1">>

\* the targets of the export drawing, as pixel sizes
ExportTargets ==
    {PrintTarget(SPECS.A1).px, PrintTarget(SPECS.A2).px,
     <<SPECS.WebP.widthPx, SPECS.WebP.heightPx>>}

\* width of the image, and offset of its centre from the frame's centre, as
\* fractions of the frame's width; the frame is centred at (cx, cy)
Framing(rect, cx, frameW) ==
    [width  |-> RDiv(rect.w, frameW),
     offset |-> RDiv(RSub(RAdd(rect.x, RDiv(rect.w, RNum(2))), cx), frameW)]

\* C22  For every CropState the editor's operations reach and every target,
\* the preview drawing (frame: the bleed box, of width R) and the export
\* drawing (frame: the target raster, of width Wt) give the image the same
\* width and the same centre offset, each as a fraction of the frame's width.
PreviewMatchesExport ==
    (/\ ed.on /\ ed.mounted
     /\ ed.image # null /\ ed.canvas # null)
        => \A target \in ExportTargets :
              LET nat    == NatOf(Get(ed.image))
                  canvas == Get(ed.canvas)
                  layoutW == IF editorLayoutWidth = 0 THEN 500 ELSE editorLayoutWidth
                  inPreview == Framing(PreviewRect(nat, ed.crop, canvas[1], canvas[2]),
                                       RDiv(RNum(canvas[1]), RNum(2)),
                                       ViewBox(canvas[1], canvas[2]).width)
                  inExport  == Framing(DrawRect(nat, ed.crop, target[1], target[2], layoutW),
                                       RDiv(RNum(target[1]), RNum(2)), RNum(target[1]))
              IN  inPreview = inExport

\* the runs whose callback has not reached its end
InFlight == {r \in DOMAIN runs : runs[r].pc \notin {"done", "failed"}}

\* C23  At most one batch run is in flight at any time, and while the
\* processing flag is true no step starts a further run.
SingleRunInFlight ==
    /\ [](Cardinality(InFlight) <= 1)
    /\ [][isProcessing => Len(runs') = Len(runs)]_vars

\* the state handleReset leaves, which is the state the app starts in
ResetState ==
    /\ files = <<>>
    /\ previewSrc = null
    /\ results = null
    /\ crops = <<>>
    /\ fileSettings = <<>>
    /\ fileNames = <<>>
    /\ currentFileIndex = 0

\* C24  Reset is stable: the step that clears the preview (handleReset) leaves
\* the initial upload state, and from that state every step that selects no
\* new images stays in it, whatever was started before the reset.
ResetIsStable ==
    /\ [][(previewSrc # null /\ previewSrc' = null) => ResetState']_vars
    /\ [][(ResetState /\ files' = <<>>) => ResetState']_vars

\* C25  Once no preview load is pending, the previewed image is the one at
\* the current file index.
PreviewShowsCurrent ==
    (pendingLoads = {} /\ previewSrc # null /\ currentFileIndex + 1 \in DOMAIN files)
        => Get(previewSrc) = files[currentFileIndex + 1].name

\* C26  Every accepted Generate invocation eventually clears the processing
\* flag: when every image load and every encode settles, a flag that is true
\* becomes false again, and the step in which a run ends, completed or failed,
\* leaves the flag false.
ProcessingEventuallyCleared ==
    /\ isProcessing ~> ~isProcessing
    /\ [][\A r \in DOMAIN runs :
             (r \in InFlight /\ runs'[r].pc \in {"done", "failed"}) => ~isProcessing']_vars

\* a run has failed on an image that did not decode, and the flag is clear
ProcessingClearedWitness ==
    /\ Len(runs) = 1
    /\ runs[1].pc = "failed"
    /\ runs[1].batchResults = <<>>
    /\ ~isProcessing

\* a run has completed, and the flag is clear
ProcessingClearedDoneWitness ==
    /\ Len(runs) = 1
    /\ runs[1].pc = "done"
    /\ results = Some(runs[1].batchResults)
    /\ ~isProcessing

\* C27  The per-image stores are aligned: files, fileNames, crops,
\* fileSettings and thumbnails have the same length, and with files selected
\* the current file index is an index into them.
StoresAligned ==
    /\ Len(fileNames) = Len(files)
    /\ Len(crops) = Len(files)
    /\ Len(fileSettings) = Len(files)
    /\ Len(thumbnails) = Len(files)
    /\ files # <<>> => currentFileIndex + 1 \in DOMAIN files

\* C28  Whenever the crop editor is mounted and no drag is in progress, its
\* local CropState is the committed CropState of the current image; the
\* completion of the editor's image load does not undo a committed edit.
EditorCropIsCommitted ==
    (/\ ed.on /\ ed.mounted
     /\ ed.dragStart = null
     /\ currentFileIndex + 1 \in DOMAIN crops)
        => ed.crop = crops[currentFileIndex + 1]

\* C29  For every image with natural width >= 1 and natural height >= 1 and
\* every resize percentage in 1..100, the surface generateResizedWebP creates
\* (here: while processExports awaits its encoding) is at least 1 pixel wide
\* and at least 1 pixel high.
ResizeSurfaceNonEmpty ==
    (/\ job.pc = "resize"
     /\ job.image.nat[1] >= 1 /\ job.image.nat[2] >= 1
     /\ job.options.resizeScale \in 1..100)
        => HasPixels(ResizedCanvas(job.image.nat, job.options.resizeScale))

====
